---- MODULE Spec2Model ----
(***************************************************************************)
(* Azure Capacity Validator: the single-page UI (App, PlanEditor,          *)
(* ValidationResults) and the plan validator it talks to.                  *)
(*                                                                         *)
(* JavaScript objects are TLA+ records whose domain is the set of keys     *)
(* that are present; an absent key reads as undefined.                     *)
(***************************************************************************)
EXTENDS Integers, Sequences, FiniteSets, TLC

\* ------------------------------------------------------------------------
\* Bounds of the model
\* ------------------------------------------------------------------------
\* number of user gestures (clicks, selections, typing) in one behaviour
MaxGestures == 4
\* longest plan handed to the validator
MaxResources == 2
\* validations of the plan handed to the validator
MaxValidations == 1
\* number of user gestures in one behaviour that follows the list fetches
MaxSelectorGestures == 3

\* ------------------------------------------------------------------------
\* JavaScript values
\* ------------------------------------------------------------------------
Undefined == "undefined"
\* null held in a state slot that otherwise holds an object
Null == [null |-> TRUE]
\* null held in a state slot that otherwise holds a string
NullString == "null"
EmptyObject == <<>>

Has(obj, key) == key \in DOMAIN obj

\* {...a, ...b}
Spread(a, b) == b @@ a

\* s || d, for a string (or undefined) s
StrOr(s, d) == IF s = "" \/ s = Undefined THEN d ELSE s

\* String.prototype.trim on the texts typed in the model
Trim(s) ==
    CASE s = "  " -> ""
      [] s = " Microsoft.Web/sites " -> "Microsoft.Web/sites"
      [] OTHER -> s

\* String.prototype.toLowerCase on the type and status names of the model
ToLowerCase(s) ==
    CASE s = "Microsoft.Compute/virtualMachines" -> "microsoft.compute/virtualmachines"
      [] s = "Microsoft.Compute/disks" -> "microsoft.compute/disks"
      [] s = "Microsoft.KeyVault/vaults" -> "microsoft.keyvault/vaults"
      [] s = "Microsoft.Web/sites" -> "microsoft.web/sites"
      [] s = "Available" -> "available"
      [] s = "OK" -> "ok"
      [] OTHER -> s

\* Number(text) for the texts a number input can deliver
Number(text) ==
    CASE text = "" -> 0
      [] text = "0" -> 0
      [] text = "1" -> 1
      [] text = "3" -> 3
      [] text = "-1" -> -1

\* ------------------------------------------------------------------------
\* Input domains
\* ------------------------------------------------------------------------
VirtualMachines == "Microsoft.Compute/virtualMachines"
Disks == "Microsoft.Compute/disks"
KeyVault == "Microsoft.KeyVault/vaults"
Custom == "custom"

Regions == {"swedencentral", "westeurope"}
SubscriptionIds == {"sub-1234"}
\* the options of the resource type menu
TypeOptions == {VirtualMachines, Disks, KeyVault, Custom}
\* texts typed into the AI prompt box
Prompts == {"", "3x Standard_D4s_v5 VMs with Premium_LRS disks and a Key Vault"}
\* texts typed into the custom type field
CustomTypeTexts == {"", "  ", " Microsoft.Web/sites "}
\* texts delivered by the quantity field
QuantityTexts == {"", "0", "3", "-1"}
\* SKU names offered or typed for a resource type
SkuTexts(type) ==
    CASE ToLowerCase(type) = "microsoft.compute/virtualmachines" -> {"Standard_D4s_v5"}
      [] ToLowerCase(type) = "microsoft.keyvault/vaults" -> {"standard", "premium"}
      [] OTHER -> {"", "Premium_LRS"}

\* ------------------------------------------------------------------------
\* State
\* ------------------------------------------------------------------------
VARIABLES
    \* App
    subscriptionId, region, plan, results,
    aiLoading, aiPhase, validating, validationPhase, aiError, aiPrompt,
    \* PlanEditor
    newType, newSku, customType,
    \* the runAI and runValidation invocations in progress
    ai, val,
    \* the validator serving one validate request
    request, lookups, completed, response,
    \* the answer of the quota listing for that request
    quota,
    \* the network log: the requests the UI has issued in the latest step, when
    \* the log is recording
    wire,
    \* the selectors, when their list fetches are followed: the option list
    \* each mounted selector displays and the list fetches that have not settled
    sel,
    \* user gestures made so far
    gestures

appVars == <<subscriptionId, region, plan, results,
             aiLoading, aiPhase, validating, validationPhase, aiError, aiPrompt>>
editorVars == <<newType, newSku, customType>>
validatorVars == <<request, lookups, completed, response, quota>>
vars == <<appVars, editorVars, ai, val, validatorVars, wire, sel, gestures>>

\* the gestures of one behaviour: fewer where the list fetches are followed
GestureLimit == IF sel.following THEN MaxSelectorGestures ELSE MaxGestures

Gesture == /\ gestures < GestureLimit
           /\ gestures' = gestures + 1

\* ------------------------------------------------------------------------
\* Requests
\* ------------------------------------------------------------------------
\* window.location.origin
Origin == "http://localhost:5173"

\* new URL(path, window.location.origin)
NewURL(path, origin) == [origin |-> origin, path |-> path, searchParams |-> EmptyObject]

\* url.searchParams.set(name, value)
SearchParamsSet(url, name, value) ==
    [url EXCEPT !.searchParams = Spread(@, name :> value)]

\* if (subscriptionId) url.searchParams.set('subscription_id', subscriptionId)
WithSubscription(url, sub) ==
    IF StrOr(sub, Undefined) = Undefined THEN url
    ELSE SearchParamsSet(url, "subscription_id", sub)

\* url.toString().replace(window.location.origin, ''): the URL fetch is given
Relative(url) == IF url.origin = Origin THEN [url EXCEPT !.origin = ""] ELSE url

\* fetch(url): a GET without a body
Get(url) == [method |-> "GET", url |-> url, body |-> Null]

\* fetch(path, { method: 'POST', ..., body: JSON.stringify(data) })
Post(path, data) ==
    [method |-> "POST",
     url |-> [origin |-> "", path |-> path, searchParams |-> EmptyObject],
     body |-> data]

\* App, on mount
SubscriptionsRequest ==
    Get([origin |-> "", path |-> "/api/subscriptions", searchParams |-> EmptyObject])

\* RegionSelector
LocationsRequest(sub) ==
    Get(Relative(WithSubscription(NewURL("/api/locations", Origin), sub)))

\* VMSizeSelector
VmSizesRequest(location, sub) ==
    Get(Relative(WithSubscription(
            SearchParamsSet(NewURL("/api/compute/vm-sizes", Origin), "location", location),
            sub)))

\* GenericSkuSelector
ResourceSkusRequest(resourceType, location, sub) ==
    Get(Relative(WithSubscription(
            SearchParamsSet(
                SearchParamsSet(NewURL("/api/resource-skus", Origin),
                                "resource_type", resourceType),
                "location", location),
            sub)))

\* the selector PlanEditor renders for a resource type: VMSizeSelector,
\* GenericSkuSelector (in the revision that has it), or none
SelectorOf(type) ==
    CASE ToLowerCase(type) = "microsoft.compute/virtualmachines" -> "VMSizeSelector"
      [] ToLowerCase(type) \in {"microsoft.compute/disks", "microsoft.keyvault/vaults",
                                "microsoft.cognitiveservices/accounts"} -> "GenericSkuSelector"
      [] OTHER -> "none"

\* the types PlanEditor renders selectors for: slot 0 is the new-resource
\* form, slot i is row i of the plan
Slots(type, p) ==
    [k \in 0..Len(p.resources) |->
        IF k = 0 THEN type ELSE p.resources[k].resource_type]

\* what the effect of the selector in a slot fetches
SelectorRequest(type, location, sub) ==
    IF SelectorOf(type) = "VMSizeSelector"
    THEN VmSizesRequest(location, sub)
    ELSE ResourceSkusRequest(type, location, sub)

\* the requests of all the effects that run when the UI is first rendered
MountRequests(sub, location, type, p) ==
    {SubscriptionsRequest, LocationsRequest(sub)}
      \cup { SelectorRequest(Slots(type, p)[k], location, sub) :
               k \in {j \in DOMAIN Slots(type, p) : SelectorOf(Slots(type, p)[j]) # "none"} }

\* the requests of the effects that run after a step: a selector that is
\* mounted by the step, or whose resource type, region or subscription the
\* step has changed, fetches its list; RegionSelector fetches on a change of
\* subscription
EffectRequests ==
    LET before == Slots(newType, plan)
        after == Slots(newType', plan')
        moved == region' # region \/ subscriptionId' # subscriptionId
        runs == { k \in DOMAIN after :
                    /\ SelectorOf(after[k]) # "none"
                    /\ \/ moved
                       \/ k \notin DOMAIN before
                       \/ SelectorOf(before[k]) # SelectorOf(after[k])
                       \/ /\ SelectorOf(after[k]) = "GenericSkuSelector"
                          /\ before[k] # after[k] }
    IN  { SelectorRequest(after[k], region', subscriptionId') : k \in runs }
          \cup (IF subscriptionId' # subscriptionId
                THEN {LocationsRequest(subscriptionId')} ELSE {})

\* the log, recording or not
Recording(requests) == [recording |-> TRUE, requests |-> requests]
NotRecording == [recording |-> FALSE, requests |-> {}]

\* value, as the selector in slot k is given it: newSku, or the row's r.sku
SlotValue(sku, p, k) ==
    IF k = 0 THEN sku
    ELSE IF Has(p.resources[k], "sku") THEN p.resources[k].sku ELSE Undefined

\* the selectors after a step, from the selectors base its handler leaves: a
\* selector that the step mounts starts with an empty list, and the fetches
\* of a selector that the step unmounts are left without their selector; the
\* effect of a selector that is mounted by the step, or whose resource type,
\* region or subscription the step has changed, starts a list fetch whose
\* callback holds value and onChange of the render after the step; onChange
\* of a row is updateResource of that render, which holds its plan. Fetches
\* that agree in all of this are one.
RunEffects(base) ==
    LET before == Slots(newType, plan)
        after == Slots(newType', plan')
        moved == region' # region \/ subscriptionId' # subscriptionId
        mounted == { k \in DOMAIN after : SelectorOf(after[k]) # "none" }
        kept == { k \in mounted : /\ k \in DOMAIN before
                                  /\ SelectorOf(before[k]) = SelectorOf(after[k]) }
        runs == { k \in mounted :
                    \/ moved
                    \/ k \notin kept
                    \/ /\ SelectorOf(after[k]) = "GenericSkuSelector"
                       /\ before[k] # after[k] }
        closure(k) == IF k = 0 THEN [value |-> SlotValue(newSku', plan', k)]
                      ELSE [value |-> SlotValue(newSku', plan', k), plan |-> plan']
        left(f) == IF f.component # "RegionSelector" /\ f.slot \notin kept
                   THEN [f EXCEPT !.live = FALSE] ELSE f
        issued == { Spread([component |-> SelectorOf(after[k]),
                            slot |-> k,
                            live |-> TRUE,
                            request |-> SelectorRequest(after[k], region',
                                                        subscriptionId')],
                           closure(k)) : k \in runs }
        locations == IF subscriptionId' # subscriptionId
                     THEN { [component |-> "RegionSelector",
                             request |-> LocationsRequest(subscriptionId')] }
                     ELSE {}
    IN  [following |-> TRUE,
         failed |-> base.failed,
         regions |-> base.regions,
         lists |-> [k \in mounted |-> IF k \in kept THEN base.lists[k] ELSE <<>>],
         fetches |-> { left(f) : f \in base.fetches } \cup issued \cup locations]

\* the selectors, when their list fetches are not followed
NotFollowing == [following |-> FALSE]

\* the values of the options a list gives: list.map(s => s.name)
Names(list) == { list[i].name : i \in 1..Len(list) }

\* the SKUs the field in slot k can deliver for a resource type: the options
\* of the selector, which are the empty option and the displayed list, or
\* what is typed
SkuChoices(k, type) ==
    IF sel.following /\ SelectorOf(type) # "none"
    THEN {""} \cup Names(sel.lists[k])
    ELSE SkuTexts(type)

\* the regions RegionSelector can deliver: its options
RegionChoices == IF sel.following THEN Names(sel.regions) ELSE Regions

\* the requests of a step: those its handler makes and those of the effects
Fetch(direct) ==
    /\ wire' = IF wire.recording THEN Recording(direct \cup EffectRequests) ELSE wire
    /\ sel' = IF sel.following THEN RunEffects(sel) ELSE sel

\* ------------------------------------------------------------------------
\* PlanEditor
\* ------------------------------------------------------------------------
\* the Add button without the check of the type to use
addResourceNoGuard ==
    /\ Gesture
    /\ LET typeToUse == IF newType = Custom THEN Trim(StrOr(customType, "")) ELSE newType
           base == [resource_type |-> typeToUse, quantity |-> 1, features |-> EmptyObject]
           res == IF StrOr(newSku, Undefined) = Undefined
                  THEN base
                  ELSE Spread(base, [sku |-> newSku])
       IN  /\ plan' = Spread(plan, [resources |-> Append(plan.resources, res)])
           /\ newSku' = ""
           /\ customType' = IF newType = Custom THEN "" ELSE customType
    /\ UNCHANGED <<aiPrompt, subscriptionId, region, results, aiLoading, aiPhase,
                   validating, validationPhase, aiError, newType, ai, val,
                   validatorVars>>
    /\ Fetch({})

\* the Add button
addResource ==
    /\ Gesture
    /\ LET typeToUse == IF newType = Custom THEN Trim(StrOr(customType, "")) ELSE newType
           base == [resource_type |-> typeToUse, quantity |-> 1, features |-> EmptyObject]
           \* sku: newSku || undefined
           res == IF StrOr(newSku, Undefined) = Undefined
                  THEN base
                  ELSE Spread(base, [sku |-> newSku])
       IN  IF typeToUse = ""
           THEN UNCHANGED <<plan, newSku, customType>>
           ELSE /\ plan' = Spread(plan, [resources |-> Append(plan.resources, res)])
                /\ newSku' = ""
                /\ customType' = IF newType = Custom THEN "" ELSE customType
    /\ UNCHANGED <<aiPrompt, subscriptionId, region, results, aiLoading, aiPhase,
                   validating, validationPhase, aiError, newType, ai, val,
                   validatorVars>>
    /\ Fetch({})

\* the row at idx becomes the patch alone
updateResourceReplaces(idx, patch) ==
    LET updated == [i \in 1..Len(plan.resources) |->
                       IF i = idx THEN patch ELSE plan.resources[i]]
    IN  plan' = Spread(plan, [resources |-> updated])

\* the plan that updateResource of a render holding the plan p sets
updateResourceOf(p, idx, patch) ==
    LET updated == [i \in 1..Len(p.resources) |->
                       IF i = idx THEN Spread(p.resources[i], patch)
                                  ELSE p.resources[i]]
    IN  Spread(p, [resources |-> updated])

updateResource(idx, patch) == plan' = updateResourceOf(plan, idx, patch)

removeResource(idx) ==
    LET kept == {i \in 1..Len(plan.resources) : i # idx}
        \* the position in the input of the k-th kept element
        Pos(k) == CHOOSE i \in kept : Cardinality({j \in kept : j < i}) = k - 1
        updated == [k \in 1..Cardinality(kept) |-> plan.resources[Pos(k)]]
    IN  plan' = Spread(plan, [resources |-> updated])

\* the Qty field of a row
QuantityChange ==
    /\ Gesture
    /\ \E idx \in 1..Len(plan.resources), text \in QuantityTexts :
           updateResource(idx, [quantity |-> Number(text)])
    /\ UNCHANGED <<aiPrompt, subscriptionId, region, results, aiLoading, aiPhase,
                   validating, validationPhase, aiError, editorVars, ai, val,
                   validatorVars>>
    /\ Fetch({})

\* the SKU/Size field of a row
SkuChange ==
    /\ Gesture
    /\ \E idx \in 1..Len(plan.resources) :
         \E v \in SkuChoices(idx, plan.resources[idx].resource_type) :
           updateResource(idx, [sku |-> v])
    /\ UNCHANGED <<aiPrompt, subscriptionId, region, results, aiLoading, aiPhase,
                   validating, validationPhase, aiError, editorVars, ai, val,
                   validatorVars>>
    /\ Fetch({})

\* the remove button of a row
RemoveClick ==
    /\ Gesture
    /\ \E idx \in 1..Len(plan.resources) : removeResource(idx)
    /\ UNCHANGED <<aiPrompt, subscriptionId, region, results, aiLoading, aiPhase,
                   validating, validationPhase, aiError, editorVars, ai, val,
                   validatorVars>>
    /\ Fetch({})

\* the Resource Type menu
setNewType ==
    /\ Gesture
    /\ \E v \in TypeOptions \ {newType} :
         /\ newType' = v
         /\ newSku' = CASE ToLowerCase(v) = "microsoft.keyvault/vaults" -> "standard"
                        [] ToLowerCase(v) = "microsoft.compute/virtualmachines" -> ""
                        [] ToLowerCase(v) = "microsoft.compute/disks" -> "Premium_LRS"
                        [] OTHER -> ""
    /\ UNCHANGED <<appVars, customType, ai, val, validatorVars>>
    /\ Fetch({})

\* the SKU field of the new resource
setNewSku ==
    /\ Gesture
    /\ \E v \in SkuChoices(0, newType) \ {newSku} : newSku' = v
    /\ UNCHANGED <<appVars, newType, customType, ai, val, validatorVars>>
    /\ Fetch({})

\* the Custom Type field, rendered only for the custom type
setCustomType ==
    /\ Gesture
    /\ newType = Custom
    /\ \E v \in CustomTypeTexts \ {customType} : customType' = v
    /\ UNCHANGED <<appVars, newType, newSku, ai, val, validatorVars>>
    /\ Fetch({})

\* ------------------------------------------------------------------------
\* App: selections
\* ------------------------------------------------------------------------
\* RegionSelector onChange
setRegion ==
    /\ Gesture
    /\ \E v \in RegionChoices \ {region} : region' = v
    /\ UNCHANGED <<aiPrompt, subscriptionId, plan, results, aiLoading, aiPhase,
                   validating, validationPhase, aiError, editorVars, ai, val,
                   validatorVars>>
    /\ Fetch({})

\* the Subscription menu: String(e.target.value) || undefined
setSubscriptionId ==
    /\ Gesture
    /\ \E v \in SubscriptionIds \cup {""} :
         /\ StrOr(v, Undefined) # subscriptionId
         /\ subscriptionId' = StrOr(v, Undefined)
    /\ UNCHANGED <<aiPrompt, region, plan, results, aiLoading, aiPhase,
                   validating, validationPhase, aiError, editorVars, ai, val,
                   validatorVars>>
    /\ Fetch({})

\* ------------------------------------------------------------------------
\* App: runAI
\* ------------------------------------------------------------------------
\* the calls of an async handler that have not ended, in the order they were
\* started, without call i
Without(calls, i) == SubSeq(calls, 1, i - 1) \o SubSeq(calls, i + 1, Len(calls))

\* HTTP answers of POST /api/ai/plan; body.json says whether the body parses
DraftResponses ==
    { [ok |-> TRUE, status |-> 200, body |-> [json |-> TRUE, value |->
          [region |-> "westeurope", resources |->
              << [resource_type |-> VirtualMachines, sku |-> "Standard_D4s_v5", quantity |-> 2],
                 [resource_type |-> Disks, sku |-> "Premium_LRS", quantity |-> 4] >>]]],
      [ok |-> TRUE, status |-> 200, body |-> [json |-> TRUE, value |->
          [resources |-> << [resource_type |-> KeyVault, sku |-> "standard"] >>]]],
      [ok |-> TRUE, status |-> 200, body |-> [json |-> TRUE, value |-> EmptyObject]],
      [ok |-> TRUE, status |-> 200, body |-> [json |-> TRUE, value |-> Null]],
      [ok |-> TRUE, status |-> 200, body |-> [json |-> FALSE]],
      [ok |-> FALSE, status |-> 503, body |-> [json |-> TRUE, value |->
          [detail |-> "Azure OpenAI not configured"]]],
      [ok |-> FALSE, status |-> 500, body |-> [json |-> FALSE]] }

\* res.json().catch(() => ({}))
JsonOrEmpty(res) == IF res.body.json THEN res.body.value ELSE EmptyObject

\* (data && (data.detail || data.message)) || `HTTP ${res.status}`
Detail(data, res) ==
    IF data # Null /\ Has(data, "detail") /\ StrOr(data.detail, Undefined) # Undefined
    THEN data.detail
    ELSE IF data # Null /\ Has(data, "message") /\ StrOr(data.message, Undefined) # Undefined
         THEN data.message
         ELSE "HTTP " \o ToString(res.status)

\* the region of the plan as an earlier revision of runAI set it
DraftPlanResponseRegion(closureRegion, data) ==
    [region |-> StrOr(IF Has(data, "region") THEN data.region ELSE Undefined, "westeurope"),
     resources |-> IF Has(data, "resources") THEN data.resources ELSE <<>>]

\* the plan set by a successful draft: { region, resources: data.resources || [] }
DraftPlan(closureRegion, data) ==
    [region |-> closureRegion,
     resources |-> IF Has(data, "resources") THEN data.resources ELSE <<>>]

\* the branch for a non-OK answer, without its return statement
runAINotOkFallsThrough(closureRegion, data, res) ==
    /\ aiError' = "AI analysis failed: " \o Detail(data, res)
                     \o ". Configure Azure OpenAI in backend env vars."
    /\ plan' = DraftPlan(closureRegion, data)
    /\ aiPhase' = "Completed"
    /\ UNCHANGED results

\* if (!res.ok) { setAiError(...); return }
runAINotOk(closureRegion, data, res) ==
    /\ aiError' = "AI analysis failed: " \o Detail(data, res)
                     \o ". Configure Azure OpenAI in backend env vars."
    /\ UNCHANGED <<plan, aiPhase, results>>

\* the draft is stored after the resources the plan has at that moment
runAIStoreDraftKeepsEdits(closureRegion, data) ==
    /\ plan' = [region |-> closureRegion,
                resources |-> plan.resources \o DraftPlan(closureRegion, data).resources]
    /\ aiPhase' = "Completed"
    /\ UNCHANGED <<aiError, results>>

\* the draft is stored, and the previous validation outcome is dropped
runAIStoreDraftClearResults(closureRegion, data) ==
    /\ plan' = DraftPlan(closureRegion, data)
    /\ aiPhase' = "Completed"
    /\ results' = Null
    /\ UNCHANGED aiError

\* setAiPhase('Building draft plan'); setPlan(...); setAiPhase('Completed')
runAIStoreDraft(closureRegion, data) ==
    /\ plan' = DraftPlan(closureRegion, data)
    /\ aiPhase' = "Completed"
    /\ UNCHANGED <<aiError, results>>

\* the draft request, carrying the plan as well
DraftRequestWithPlan == Post("/api/ai/plan", Spread(plan, [prompt |-> aiPrompt]))

\* fetch('/api/ai/plan', { method: 'POST', body: JSON.stringify({ prompt: aiPrompt }) })
DraftRequest == Post("/api/ai/plan", [prompt |-> aiPrompt])

\* the AI prompt box
setAiPrompt ==
    /\ Gesture
    /\ \E text \in Prompts \ {aiPrompt} : aiPrompt' = text
    /\ UNCHANGED <<subscriptionId, region, plan, results, aiLoading, aiPhase,
                   validating, validationPhase, aiError, editorVars, ai, val,
                   validatorVars>>
    /\ Fetch({})

\* the Analyze button is offered enabled at all times
analyzeDisabledNever == FALSE

\* <Button onClick={runAI} disabled={aiLoading}>
analyzeDisabled == aiLoading

\* the Analyze button, up to the fetch
runAI ==
    /\ Gesture
    /\ ~analyzeDisabled
    /\ aiError' = NullString
    /\ aiLoading' = TRUE
    /\ aiPhase' = "Analyzing architecture prompt"
    /\ ai' = Append(ai, [pc |-> "fetch", region |-> region])
    /\ UNCHANGED <<aiPrompt, subscriptionId, region, plan, results, validating,
                   validationPhase, editorVars, val, validatorVars>>
    /\ Fetch({DraftRequest})

\* the fetch of a call settles: a response arrives, or the request is rejected
runAIFetchSettled ==
    /\ \E i \in 1..Len(ai) :
         /\ ai[i].pc = "fetch"
         /\ \/ \E res \in DraftResponses :
                 /\ aiPhase' = "Extracting resource providers & SKUs"
                 /\ ai' = [ai EXCEPT ![i] = [pc |-> "json", region |-> ai[i].region,
                                             res |-> res]]
                 /\ UNCHANGED aiError
            \/ /\ aiError' = "Failed to fetch"
               /\ ai' = [ai EXCEPT ![i] = [pc |-> "timer"]]
               /\ UNCHANGED aiPhase
    /\ UNCHANGED <<aiPrompt, subscriptionId, region, plan, results, aiLoading, validating,
                   validationPhase, editorVars, val, validatorVars, gestures>>
    /\ Fetch({})

\* the body of a call is read: the rest of the try block, and the finally block
runAIJsonSettled ==
    /\ \E i \in 1..Len(ai) :
         /\ ai[i].pc = "json"
         /\ LET res == ai[i].res
                data == JsonOrEmpty(res)
            IN  IF ~res.ok
                THEN runAINotOk(ai[i].region, data, res)
                ELSE IF data = Null
                THEN \* data.resources throws a TypeError, caught by the catch block
                     /\ aiPhase' = "Building draft plan"
                     /\ aiError' = "Cannot read properties of null (reading 'resources')"
                     /\ UNCHANGED <<plan, results>>
                ELSE runAIStoreDraft(ai[i].region, data)
         /\ ai' = [ai EXCEPT ![i] = [pc |-> "timer"]]
    /\ UNCHANGED <<aiPrompt, subscriptionId, region, aiLoading, validating,
                   validationPhase, editorVars, val, validatorVars, gestures>>
    /\ Fetch({})

\* setTimeout(() => { setAiPhase(''); setAiLoading(false) }, 600)
runAITimerFires(i) ==
    /\ aiPhase' = ""
    /\ aiLoading' = FALSE
    /\ ai' = Without(ai, i)

\* the delayed reset of a call that has settled
runAITimer ==
    /\ \E i \in 1..Len(ai) :
         /\ ai[i].pc = "timer"
         /\ runAITimerFires(i)
    /\ UNCHANGED <<aiPrompt, subscriptionId, region, plan, results, validating,
                   validationPhase, aiError, editorVars, val, validatorVars,
                   gestures>>
    /\ Fetch({})

\* what the AI Plan Generator panel renders: the prompt box and the button
\* always, the alert when aiError is set, the phase caption during a call
AIPlanGenerator ==
    {"prompt", "button"}
      \cup (IF aiError \notin {NullString, ""} THEN {"alert"} ELSE {})
      \cup (IF aiLoading /\ aiPhase # "" /\ aiError \in {NullString, ""}
            THEN {"phase"} ELSE {})

\* ------------------------------------------------------------------------
\* App: runValidation
\* ------------------------------------------------------------------------
\* JSON numbers that need not be whole: num/den with den > 0
Rat(n, d) == [num |-> n, den |-> d]
RatGeq(a, b) == a.num * b.den >= b.num * a.den
RatEq(a, b) == a.num * b.den = b.num * a.den

\* JSON.stringify drops a key whose value is undefined
Stringify(payload) ==
    IF payload.subscription_id = Undefined
    THEN [k \in DOMAIN payload \ {"subscription_id"} |-> payload[k]]
    ELSE payload

\* the payload with the plan's own fields spread last
PayloadPlanLast ==
    Stringify(Spread([region |-> region, subscription_id |-> subscriptionId], plan))

\* { ...plan, region, subscription_id: subscriptionId }, as sent
Payload == Stringify(Spread(plan, [region |-> region, subscription_id |-> subscriptionId]))

\* HTTP answers of POST /api/validate-plan seen by the UI when the answer of
\* the validator is not followed
ValidateResponses ==
    { [ok |-> TRUE, status |-> 200, body |-> [json |-> TRUE, value |->
          [region |-> "westeurope", results |->
              << [resource |-> [resource_type |-> VirtualMachines, sku |-> "Standard_D4s_v5", quantity |-> 2],
                  status |-> "available"],
                 [resource |-> [resource_type |-> Disks, sku |-> "Premium_LRS", quantity |-> 4],
                  status |-> "unknown"] >>]]],
      [ok |-> TRUE, status |-> 200, body |-> [json |-> TRUE, value |->
          [region |-> "swedencentral", subscription_id |-> "sub-1234", results |-> <<>>,
           quota_status |-> "unavailable"]]],
      [ok |-> FALSE, status |-> 500, body |-> [json |-> TRUE, value |->
          [detail |-> "Internal Server Error"]]],
      [ok |-> TRUE, status |-> 200, body |-> [json |-> FALSE]],
      [ok |-> TRUE, status |-> 200, body |-> [json |-> TRUE, value |->
          [region |-> "swedencentral", results |-> <<>>, quota_status |-> "ok",
           quota_summary |->
              << [name |-> "cores", current |-> 40, limit |-> 100, remaining |-> 60,
                  requested_additional |-> 8, remaining_after_request |-> 52,
                  percent_used |-> Rat(40, 1),
                  percent_used_after_request |-> Rat(799, 10)],
                 [name |-> "standardDSv5Family", current |-> 72, limit |-> 100,
                  remaining |-> 28, requested_additional |-> 8,
                  remaining_after_request |-> 20,
                  percent_used |-> Rat(72, 1),
                  percent_used_after_request |-> Rat(80, 1)],
                 [name |-> "standardESv5Family", current |-> 85, limit |-> 100,
                  remaining |-> 15, percent_used |-> Rat(85, 1)],
                 [name |-> "standardFSv2Family", current |-> 9, limit |-> 10,
                  remaining |-> 1, requested_additional |-> 0,
                  remaining_after_request |-> 1,
                  percent_used |-> Rat(9, 10),
                  percent_used_after_request |-> Rat(9, 10)] >>]]] }

\* fetch('/api/validate-plan', { method: 'POST', body: JSON.stringify(payload) })
ValidateRequest == Post("/api/validate-plan", Payload)

\* the Validate button is offered disabled
validateDisabledNever == FALSE

validateDisabled == validating

\* the Validate button, up to the fetch
runValidation ==
    /\ ~validateDisabled
    /\ validating' = TRUE
    /\ validationPhase' = "Validating plan"
    /\ val' = Append(val, [pc |-> "fetch", payload |-> Payload])
    /\ UNCHANGED <<aiPrompt, subscriptionId, region, plan, results, aiLoading, aiPhase,
                   aiError, editorVars, ai>>
    /\ Fetch({ValidateRequest})

\* the finally block of runValidation, ending call i
runValidationFinally(i) ==
    /\ validationPhase' = ""
    /\ validating' = FALSE
    /\ val' = Without(val, i)

\* the fetch of call i settles with the response res
runValidationFetchResolved(res) ==
    /\ \E i \in 1..Len(val) :
         /\ val[i].pc = "fetch"
         /\ val' = [val EXCEPT ![i] = [pc |-> "json", res |-> res]]
    /\ UNCHANGED <<appVars, editorVars, ai>>

\* the fetch of call i is rejected, and nothing is reset
runValidationFetchRejectedNoFinally ==
    /\ \E i \in 1..Len(val) :
         /\ val[i].pc = "fetch"
         /\ val' = Without(val, i)
    /\ UNCHANGED <<appVars, editorVars, ai>>

\* the fetch of call i is rejected: the exception leaves the try block
runValidationFetchRejected ==
    /\ \E i \in 1..Len(val) :
         /\ val[i].pc = "fetch"
         /\ runValidationFinally(i)
    /\ UNCHANGED <<aiPrompt, subscriptionId, region, plan, results, aiLoading, aiPhase,
                   aiError, editorVars, ai>>

\* res.json() throws and the results are cleared
runValidationJsonRejectedClears == results' = Null

\* res.json() throws: the two statements after it are skipped
runValidationJsonRejected == UNCHANGED results

\* the body of call i is read: setResults(data), or the exception of res.json()
runValidationJsonSettled ==
    /\ \E i \in 1..Len(val) :
         /\ val[i].pc = "json"
         /\ IF val[i].res.body.json
            THEN results' = val[i].res.body.value
            ELSE runValidationJsonRejected
         /\ runValidationFinally(i)
    /\ UNCHANGED <<aiPrompt, subscriptionId, region, plan, aiLoading, aiPhase,
                   aiError, editorVars, ai>>

\* ------------------------------------------------------------------------
\* Plan Validator (the service behind POST /api/validate-plan)
\* ------------------------------------------------------------------------
StatusEnum == {"available", "restricted", "unknown", "error"}

\* answers of the provider's SKU listing for one (region, resource type):
\* a listing of { name, restrictions[] } entries, or a failed call
LookupResults ==
    { [ok |-> TRUE, items |-> << [name |-> "Standard_D4s_v5", restrictions |-> <<>>],
                                 [name |-> "Premium_LRS", restrictions |-> <<>>] >>],
      [ok |-> TRUE, items |-> << [name |-> "Standard_D4s_v5",
                                  restrictions |-> <<"NotAvailableForSubscription", "Zone">>] >>],
      [ok |-> FALSE, error |-> "Request timed out"],
      [ok |-> FALSE, error |-> "AuthorizationFailed: no read access"] }

Pending == [pending |-> TRUE]

RECURSIVE Join(_)
Join(reasons) ==
    IF Len(reasons) = 1 THEN reasons[1]
    ELSE reasons[1] \o ", " \o Join(Tail(reasons))

\* the entries of a listing that match the requested sku
Matching(resource, items) ==
    IF Has(resource, "sku")
    THEN SelectSeq(items, LAMBDA e : e.name = resource.sku)
    ELSE <<>>

\* Outcome, with a listed sku taken as available whatever its restrictions
OutcomeListedIsAvailable(resource, lookup) ==
    IF ~lookup.ok
    THEN [resource |-> resource, status |-> "error", details |-> lookup.error]
    ELSE IF Matching(resource, lookup.items) = <<>>
         THEN [resource |-> resource, status |-> "unknown"]
         ELSE [resource |-> resource, status |-> "available"]

\* Outcome, with an absent sku reported as a restriction
OutcomeAbsentIsRestricted(resource, lookup) ==
    IF ~lookup.ok
    THEN [resource |-> resource, status |-> "error", details |-> lookup.error]
    ELSE LET found == Matching(resource, lookup.items)
         IN  IF found = <<>>
             THEN [resource |-> resource, status |-> "restricted",
                   details |-> "SKU not offered in region"]
             ELSE IF found[1].restrictions = <<>>
             THEN [resource |-> resource, status |-> "available"]
             ELSE [resource |-> resource, status |-> "restricted",
                   details |-> Join(found[1].restrictions)]

\* the outcome of one resource, from the answer of its own lookup
Outcome(resource, lookup) ==
    IF ~lookup.ok
    THEN [resource |-> resource, status |-> "error", details |-> lookup.error]
    ELSE LET found == Matching(resource, lookup.items)
         IN  IF found = <<>>
             THEN [resource |-> resource, status |-> "unknown"]
             ELSE IF found[1].restrictions = <<>>
             THEN [resource |-> resource, status |-> "available"]
             ELSE [resource |-> resource, status |-> "restricted",
                   details |-> Join(found[1].restrictions)]

\* ValidateOutcomes, with the first failed lookup aborting the entries after it
ValidateOutcomesAbort(resources, answers) ==
    [i \in 1..Len(resources) |->
        LET failed == {k \in 1..i : ~answers[k].ok}
        IN  IF failed = {}
            THEN Outcome(resources[i], answers[i])
            ELSE LET first == CHOOSE k \in failed : \A m \in failed : k <= m
                 IN  [resource |-> resources[i], status |-> "error",
                      details |-> answers[first].error]]

\* the outcomes of a plan, recombined in input order
ValidateOutcomes(resources, answers) ==
    [i \in 1..Len(resources) |-> Outcome(resources[i], answers[i])]

\* the response body of a validation
ValidateBody(payload, answers) ==
    Spread([k \in DOMAIN payload \ {"resources"} |-> payload[k]],
           [results |-> ValidateOutcomes(payload.resources, answers)])

\* a validate request arrives: one lookup per resource is issued
ValidatorReceive(payload) ==
    /\ request' = payload
    /\ lookups' = [i \in 1..Len(payload.resources) |-> Pending]
    /\ completed' = <<>>
    /\ response' = Null

\* one of the outstanding lookups completes, in any order
LookupComplete ==
    /\ request # Null
    /\ response = Null
    /\ \E i \in 1..Len(lookups), answer \in LookupResults :
         /\ lookups[i] = Pending
         /\ lookups' = [lookups EXCEPT ![i] = answer]
         /\ completed' = Append(completed, i)
    /\ UNCHANGED <<request, response, quota, appVars, editorVars, ai, val, gestures>>
    /\ Fetch({})

\* all lookups have completed: the response is assembled
ValidatorRespond ==
    /\ request # Null
    /\ response = Null
    /\ \A i \in 1..Len(lookups) : lookups[i] # Pending
    /\ response' = [ok |-> TRUE, status |-> 200,
                    body |-> [json |-> TRUE, value |-> ValidateBody(request, lookups)]]
    /\ UNCHANGED <<request, lookups, completed, quota, appVars, editorVars, ai,
                   val, gestures>>
    /\ Fetch({})

\* ------------------------------------------------------------------------
\* Quota Projector (part of the service behind POST /api/validate-plan)
\* ------------------------------------------------------------------------
\* the VM size listing: core count and quota family of each size
VmSizes ==
    { [name |-> "Standard_D4s_v5", cores |-> 4, family |-> "standardDSv5Family"],
      [name |-> "Standard_D8s_v5", cores |-> 8, family |-> "standardDSv5Family"],
      [name |-> "Standard_E4s_v5", cores |-> 4, family |-> "standardESv5Family"] }

\* current usage and limit of a quota family, as listed
Usages == { <<0, 10>>, <<8, 10>>, <<10, 20>> }

QuotaEntry(family, usage) ==
    [name |-> family, current_value |-> usage[1], limit |-> usage[2]]

\* answers of the quota listing for one (region, subscription): entries
\* { name, current_value, limit }, none, or a failed call
QuotaListings ==
    { [ok |-> FALSE, error |-> "AuthorizationFailed: no read access"],
      [ok |-> TRUE, items |-> <<>>] }
      \cup { [ok |-> TRUE, items |-> << QuotaEntry("standardDSv5Family", u) >>] : u \in Usages }
      \cup { [ok |-> TRUE, items |-> << QuotaEntry("standardDSv5Family", u),
                                        QuotaEntry("standardESv5Family", w) >>] :
               u \in Usages, w \in Usages }

\* the cores one plan entry adds to a quota family
Cores(resource, family) ==
    IF /\ ToLowerCase(resource.resource_type) = ToLowerCase(VirtualMachines)
       /\ Has(resource, "sku")
       /\ \E size \in VmSizes : size.name = resource.sku /\ size.family = family
    THEN (CHOOSE size \in VmSizes : size.name = resource.sku).cores * resource.quantity
    ELSE 0

\* the additional cores the plan asks of a quota family
RECURSIVE RequestedAdditional(_, _)
RequestedAdditional(resources, family) ==
    IF resources = <<>> THEN 0
    ELSE Cores(Head(resources), family) + RequestedAdditional(Tail(resources), family)

\* QuotaLine, with the projected utilisation made of the request alone
QuotaLineRequestOnly(entry, requested) ==
    [name |-> entry.name,
     current |-> entry.current_value,
     limit |-> entry.limit,
     remaining |-> entry.limit - entry.current_value,
     requested_additional |-> requested,
     remaining_after_request |-> entry.limit - requested,
     percent_used |-> Rat(entry.current_value, entry.limit),
     percent_used_after_request |-> Rat(requested, entry.limit)]

\* the quota line of one listed entry
QuotaLine(entry, requested) ==
    [name |-> entry.name,
     current |-> entry.current_value,
     limit |-> entry.limit,
     remaining |-> entry.limit - entry.current_value,
     requested_additional |-> requested,
     remaining_after_request |-> (entry.limit - entry.current_value) - requested,
     percent_used |-> Rat(entry.current_value, entry.limit),
     percent_used_after_request |-> Rat(entry.current_value + requested, entry.limit)]

\* the quota part of the response body: a status, and one line per entry
QuotaProjection(listing, resources) ==
    IF ~listing.ok
    THEN [quota_status |-> "unavailable", quota_summary |-> <<>>]
    ELSE IF listing.items = <<>>
    THEN [quota_status |-> "empty", quota_summary |-> <<>>]
    ELSE [quota_status |-> "ok",
          quota_summary |->
              [i \in 1..Len(listing.items) |->
                  QuotaLine(listing.items[i],
                            RequestedAdditional(resources, listing.items[i].name))]]

\* the listing is asked for when the request arrives
QuotaRequested == quota' = Pending

\* the quota listing answers
QuotaListed ==
    /\ quota = Pending
    /\ \E answer \in QuotaListings : quota' = answer
    /\ UNCHANGED <<request, lookups, completed, response, appVars, editorVars,
                   ai, val, gestures>>
    /\ Fetch({})

\* the lookups and the quota listing have answered: the response is assembled
QuotaRespond ==
    /\ request # Null
    /\ response = Null
    /\ quota \notin {Null, Pending}
    /\ \A i \in 1..Len(lookups) : lookups[i] # Pending
    /\ response' = [ok |-> TRUE, status |-> 200,
                    body |-> [json |-> TRUE, value |->
                        Spread(ValidateBody(request, lookups),
                               QuotaProjection(quota, request.resources))]]
    /\ UNCHANGED <<request, lookups, completed, quota, appVars, editorVars, ai,
                   val, gestures>>
    /\ Fetch({})

\* ------------------------------------------------------------------------
\* ValidationResults
\* ------------------------------------------------------------------------
\* r.resource.quantity || 1
QuantityOr1(resource) ==
    IF Has(resource, "quantity") /\ resource.quantity # 0 THEN resource.quantity ELSE 1

\* Row, with the chip labelled by the lower-cased verdict of the ok test
RowOkLabel(r) ==
    LET status == IF Has(r, "status") THEN r.status ELSE Undefined
        ok == ToLowerCase(StrOr(status, "")) \in {"ok", "available"}
        row == [resource_type |-> r.resource.resource_type,
                sku |-> StrOr(IF Has(r.resource, "sku") THEN r.resource.sku ELSE Undefined,
                              "(no sku)"),
                qty |-> QuantityOr1(r.resource),
                chip |-> IF ok THEN "ok" ELSE status,
                color |-> IF ok THEN "success" ELSE "error"]
    IN  IF Has(r, "details") /\ StrOr(r.details, Undefined) # Undefined
        THEN Spread(row, [details |-> r.details])
        ELSE row

\* one row of the outcome list
Row(r) ==
    LET status == IF Has(r, "status") THEN r.status ELSE Undefined
        ok == ToLowerCase(StrOr(status, "")) \in {"ok", "available"}
        row == [resource_type |-> r.resource.resource_type,
                sku |-> StrOr(IF Has(r.resource, "sku") THEN r.resource.sku ELSE Undefined,
                              "(no sku)"),
                qty |-> QuantityOr1(r.resource),
                chip |-> status,
                color |-> IF ok THEN "success" ELSE "error"]
    IN  IF Has(r, "details") /\ StrOr(r.details, Undefined) # Undefined
        THEN Spread(row, [details |-> r.details])
        ELSE row

\* Rows, listing the outcomes last to first
RowsReversed(res) ==
    [idx \in 1..Len(res.results) |-> Row(res.results[Len(res.results) - idx + 1])]

\* results.results.map(...)
Rows(res) == [idx \in 1..Len(res.results) |-> Row(res.results[idx])]

\* q.field ?? null, for a field that is a number when the line has it
OrNull(q, field) == IF Has(q, field) THEN q[field] ELSE Null

\* warn, taken from the current utilisation alone
WarnOnUsed(pct, postPct) ==
    pct # Null /\ RatGeq(pct, Rat(80, 1))

\* (postPct !== null ? postPct : pct) !== null && ((postPct ?? pct) >= 80)
Warn(pct, postPct) ==
    LET shown == IF postPct # Null THEN postPct ELSE pct
    IN  shown # Null /\ RatGeq(shown, Rat(80, 1))

\* QuotaRow, with the Remaining and Post-Plan Remaining cells exchanged
QuotaRowExchanged(q) ==
    LET pct == OrNull(q, "percent_used")
        postPct == OrNull(q, "percent_used_after_request")
    IN  [highlighted |-> Warn(pct, postPct),
         Name |-> q.name,
         Current |-> q.current,
         Limit |-> q.limit,
         Remaining |-> IF Has(q, "remaining_after_request")
                       THEN <<q.remaining_after_request>> ELSE <<>>,
         PlannedAdd |-> IF Has(q, "requested_additional")
                        THEN q.requested_additional ELSE 0,
         PostPlanRemaining |-> <<q.remaining>>,
         UsedPct |-> IF pct # Null THEN <<pct, "%">> ELSE <<>>,
         UsedPctAfter |-> IF postPct # Null THEN <<postPct, "%">> ELSE <<>>]

\* one row of the quota table; a cell that may be empty is the sequence of
\* what it shows
QuotaRow(q) ==
    LET pct == OrNull(q, "percent_used")
        postPct == OrNull(q, "percent_used_after_request")
    IN  [highlighted |-> Warn(pct, postPct),
         Name |-> q.name,
         Current |-> q.current,
         Limit |-> q.limit,
         Remaining |-> <<q.remaining>>,
         PlannedAdd |-> IF Has(q, "requested_additional")
                        THEN q.requested_additional ELSE 0,
         PostPlanRemaining |-> IF Has(q, "remaining_after_request")
                               THEN <<q.remaining_after_request>> ELSE <<>>,
         UsedPct |-> IF pct # Null THEN <<pct, "%">> ELSE <<>>,
         UsedPctAfter |-> IF postPct # Null THEN <<postPct, "%">> ELSE <<>>]

\* Array.isArray(results.quota_summary) && results.quota_summary.length > 0
QuotaTableShown(res) ==
    /\ Has(res, "quota_summary")
    /\ Len(res.quota_summary) > 0

\* the quota table: results.quota_summary.map(...)
QuotaTable(res) ==
    IF QuotaTableShown(res)
    THEN [i \in 1..Len(res.quota_summary) |-> QuotaRow(res.quota_summary[i])]
    ELSE <<>>

\* QuotaStatusShown, whenever the response has a quota status
QuotaStatusShownWithTable(res) ==
    StrOr(IF Has(res, "quota_status") THEN res.quota_status ELSE Undefined, "") # ""

\* (!results.quota_summary || results.quota_summary.length === 0) && results.quota_status
QuotaStatusShown(res) ==
    /\ \/ ~Has(res, "quota_summary")
       \/ Len(res.quota_summary) = 0
    /\ StrOr(IF Has(res, "quota_status") THEN res.quota_status ELSE Undefined, "") # ""

\* the text under the heading Quota Summary (Compute)
QuotaStatusText(res) ==
    CASE res.quota_status = "empty" -> "No quotas with limits found to display."
      [] res.quota_status = "unavailable" ->
             "Quota data unavailable (permission, region, or API error)."
      [] OTHER -> ""

\* ------------------------------------------------------------------------
\* Spec: the UI driven by the user, with the servers as environment
\* ------------------------------------------------------------------------
ValidateClick ==
    /\ Gesture
    /\ runValidation
    /\ UNCHANGED validatorVars

ValidateFetchSettled ==
    /\ \/ \E res \in ValidateResponses : runValidationFetchResolved(res)
       \/ runValidationFetchRejected
    /\ UNCHANGED <<validatorVars, gestures>>
    /\ Fetch({})

ValidateJsonSettled ==
    /\ runValidationJsonSettled
    /\ UNCHANGED <<validatorVars, gestures>>
    /\ Fetch({})

\* the state of the UI when it is first rendered
InitUI ==
    /\ subscriptionId = Undefined
    /\ region = "swedencentral"
    /\ plan = [region |-> "swedencentral", resources |-> <<>>]
    /\ results = Null
    /\ aiLoading = FALSE
    /\ aiPhase = ""
    /\ validating = FALSE
    /\ validationPhase = ""
    /\ aiError = NullString
    /\ aiPrompt = ""
    /\ newType = VirtualMachines
    /\ newSku = ""
    /\ customType = ""
    /\ ai = <<>>
    /\ val = <<>>
    /\ request = Null
    /\ lookups = <<>>
    /\ completed = <<>>
    /\ response = Null
    /\ quota = Null
    /\ gestures = 0

Init ==
    /\ InitUI
    /\ wire = NotRecording
    /\ sel = NotFollowing

Next ==
    \/ addResource
    \/ QuantityChange
    \/ SkuChange
    \/ RemoveClick
    \/ setNewType
    \/ setNewSku
    \/ setCustomType
    \/ setRegion
    \/ setSubscriptionId
    \/ setAiPrompt
    \/ runAI
    \/ runAIFetchSettled
    \/ runAIJsonSettled
    \/ runAITimer
    \/ ValidateClick
    \/ ValidateFetchSettled
    \/ ValidateJsonSettled

Spec == Init /\ [][Next]_vars

\* ------------------------------------------------------------------------
\* SpecValidator: one plan validated by the Plan Validator, repeatedly
\* ------------------------------------------------------------------------
\* resources of the plans handed to the validator
ValidatorResources ==
    { [resource_type |-> VirtualMachines, sku |-> "Standard_D4s_v5", quantity |-> 2],
      [resource_type |-> Disks, sku |-> "Premium_LRS", quantity |-> 4],
      [resource_type |-> KeyVault, quantity |-> 1, features |-> EmptyObject] }

\* plans of pairwise different resources: each lookup of a validation targets
\* a distinct resource/SKU tuple
ValidatorPlans ==
    { rs \in UNION { [1..n -> ValidatorResources] : n \in 0..MaxResources } :
        \A i, j \in 1..Len(rs) : i # j => rs[i] # rs[j] }

InitValidator ==
    /\ subscriptionId \in SubscriptionIds \cup {Undefined}
    /\ region = "westeurope"
    /\ \E rs \in ValidatorPlans : plan = [region |-> "swedencentral", resources |-> rs]
    /\ results = Null
    /\ aiLoading = FALSE
    /\ aiPhase = ""
    /\ validating = FALSE
    /\ validationPhase = ""
    /\ aiError = NullString
    /\ aiPrompt = ""
    /\ newType = VirtualMachines
    /\ newSku = ""
    /\ customType = ""
    /\ ai = <<>>
    /\ val = <<>>
    /\ request = Null
    /\ lookups = <<>>
    /\ completed = <<>>
    /\ response = Null
    /\ quota = Null
    /\ wire = NotRecording
    /\ sel = NotFollowing
    /\ gestures = 0

\* Validate is clicked and the request reaches the validator
SubmitPlan ==
    /\ gestures < MaxValidations
    /\ gestures' = gestures + 1
    /\ runValidation
    /\ ValidatorReceive(Payload)
    /\ UNCHANGED quota

\* the validator's response reaches the UI
DeliverResponse ==
    /\ response # Null
    /\ runValidationFetchResolved(response)
    /\ UNCHANGED <<validatorVars, gestures>>
    /\ Fetch({})

NextValidator ==
    \/ SubmitPlan
    \/ LookupComplete
    \/ ValidatorRespond
    \/ DeliverResponse
    \/ ValidateJsonSettled

SpecValidator == InitValidator /\ [][NextValidator]_vars

\* ------------------------------------------------------------------------
\* SpecQuota: one plan sent through the validator and the quota projector
\* ------------------------------------------------------------------------
\* resources of the plans whose quota impact is projected
QuotaResources ==
    { [resource_type |-> VirtualMachines, sku |-> "Standard_D4s_v5", quantity |-> 2],
      [resource_type |-> VirtualMachines, sku |-> "Standard_D8s_v5", quantity |-> 1],
      [resource_type |-> VirtualMachines, sku |-> "Standard_E4s_v5", quantity |-> 3],
      [resource_type |-> Disks, sku |-> "Premium_LRS", quantity |-> 4] }

QuotaPlans == UNION { [1..n -> QuotaResources] : n \in 0..MaxResources }

InitQuota ==
    /\ subscriptionId \in SubscriptionIds \cup {Undefined}
    /\ region = "westeurope"
    /\ \E rs \in QuotaPlans : plan = [region |-> "swedencentral", resources |-> rs]
    /\ results = Null
    /\ aiLoading = FALSE
    /\ aiPhase = ""
    /\ validating = FALSE
    /\ validationPhase = ""
    /\ aiError = NullString
    /\ aiPrompt = ""
    /\ newType = VirtualMachines
    /\ newSku = ""
    /\ customType = ""
    /\ ai = <<>>
    /\ val = <<>>
    /\ request = Null
    /\ lookups = <<>>
    /\ completed = <<>>
    /\ response = Null
    /\ quota = Null
    /\ wire = NotRecording
    /\ sel = NotFollowing
    /\ gestures = 0

\* Validate is clicked and the request reaches the service: the SKU lookups
\* answer at once with the full listing, the quota listing is asked for
SubmitQuotaPlan ==
    /\ gestures < MaxValidations
    /\ gestures' = gestures + 1
    /\ runValidation
    /\ request' = Payload
    /\ lookups' = [i \in 1..Len(Payload.resources) |->
                      CHOOSE a \in LookupResults : a.ok /\ Len(a.items) = 2]
    /\ completed' = [i \in 1..Len(Payload.resources) |-> i]
    /\ response' = Null
    /\ QuotaRequested

NextQuota ==
    \/ SubmitQuotaPlan
    \/ QuotaListed
    \/ QuotaRespond
    \/ DeliverResponse
    \/ ValidateJsonSettled

SpecQuota == InitQuota /\ [][NextQuota]_vars

\* ------------------------------------------------------------------------
\* Properties of the Plan Validator and of the results view (SpecValidator)
\* ------------------------------------------------------------------------
\* the outcomes of the response that has been assembled
Outcomes == response.body.value.results

\* the entries of lookup i that carry the sku requested by resource i
Listed(i) ==
    IF lookups[i].ok /\ Has(request.resources[i], "sku")
    THEN {k \in 1..Len(lookups[i].items) :
             lookups[i].items[k].name = request.resources[i].sku}
    ELSE {}

\* C1: a validate call on a plan of N resources returns exactly N outcomes,
\* outcome i being about resource i, whatever the order in which the lookups
\* completed; the results view shows one row per outcome, in that order.
C1_OutcomesInInputOrder ==
    /\ response # Null =>
         /\ Len(Outcomes) = Len(request.resources)
         /\ \A i \in 1..Len(request.resources) :
                Outcomes[i].resource = request.resources[i]
    /\ results # Null =>
         /\ Len(results.results) = Len(plan.resources)
         /\ \A i \in 1..Len(plan.resources) :
                results.results[i].resource = plan.resources[i]
         /\ Len(Rows(results)) = Len(results.results)
         /\ \A i \in 1..Len(results.results) :
                /\ Rows(results)[i].resource_type = results.results[i].resource.resource_type
                /\ Rows(results)[i].qty = results.results[i].resource.quantity
                /\ Rows(results)[i].chip = results.results[i].status

\* two different resources were validated, the lookup of the second
\* completed before the lookup of the first, and the rows are shown
C1_Witness ==
    /\ results # Null
    /\ Len(plan.resources) = 2
    /\ plan.resources[1] # plan.resources[2]
    /\ completed = <<2, 1>>
    /\ results.results[1].status # results.results[2].status
    /\ Len(Rows(results)) = 2

\* C2: a failed (or timed out) lookup gives status error to the outcome of
\* its own resource only; every other resource still has its outcome, the
\* one it gets when it is validated alone with the same answer of its lookup.
C2_FailureIsolated ==
    response # Null =>
        /\ Len(Outcomes) = Len(request.resources)
        /\ \A i \in 1..Len(request.resources) :
               IF lookups[i].ok
               THEN /\ Outcomes[i].status # "error"
                    /\ Outcomes[i] =
                         ValidateOutcomes(<<request.resources[i]>>, <<lookups[i]>>)[1]
               ELSE Outcomes[i].status = "error"

\* the lookup of the first resource timed out, the lookup of the second
\* answered, and the response has been assembled
C2_Witness ==
    /\ response # Null
    /\ Len(request.resources) = 2
    /\ ~lookups[1].ok
    /\ lookups[1].error = "Request timed out"
    /\ lookups[2].ok
    /\ Outcomes[1].status = "error"
    /\ Outcomes[2].status = "available"

\* C3: when the requested sku is in the listing, the status is available if
\* the entry has no restriction, and restricted with non-empty details if it
\* has one.
C3_ListedSkuStatus ==
    response # Null =>
        \A i \in 1..Len(request.resources) : \A k \in Listed(i) :
            IF lookups[i].items[k].restrictions = <<>>
            THEN Outcomes[i].status = "available"
            ELSE /\ Outcomes[i].status = "restricted"
                 /\ Has(Outcomes[i], "details")
                 /\ Outcomes[i].details # ""

\* a response with one unrestricted and one restricted listed sku
C3_Witness ==
    /\ response # Null
    /\ \E i, j \in 1..Len(request.resources) :
          /\ \E k \in Listed(i) : lookups[i].items[k].restrictions = <<>>
          /\ \E k \in Listed(j) : lookups[j].items[k].restrictions # <<>>
          /\ Outcomes[i].status = "available"
          /\ Outcomes[j].status = "restricted"

\* C4: when the lookup succeeds and the listing has no entry for the
\* requested sku, the status is unknown, and a resource of the same plan whose
\* sku is listed without restriction stays available.
C4_AbsentSkuUnknown ==
    response # Null =>
        \A i \in 1..Len(request.resources) :
            (lookups[i].ok /\ Listed(i) = {}) =>
                /\ Outcomes[i].status = "unknown"
                /\ \A j \in 1..Len(request.resources) :
                       (\E k \in Listed(j) : lookups[j].items[k].restrictions = <<>>)
                           => Outcomes[j].status = "available"

\* the scenario of the plan with a VM and a disk, the disk sku being absent
\* from the listing
C4_Witness ==
    /\ response # Null
    /\ request.region = "westeurope"
    /\ request.resources =
          << [resource_type |-> VirtualMachines, sku |-> "Standard_D4s_v5", quantity |-> 2],
             [resource_type |-> Disks, sku |-> "Premium_LRS", quantity |-> 4] >>
    /\ lookups[2].ok
    /\ Listed(2) = {}
    /\ Outcomes[1].status = "available"
    /\ Outcomes[2].status = "unknown"

\* C5: every outcome of a validate call has a status, which is one of
\* available, restricted, unknown, error, also when lookups fail or access is
\* denied; the view shows that status for each outcome.
C5_StatusInEnumeration ==
    /\ response # Null =>
         /\ response.ok
         /\ Len(Outcomes) = Len(request.resources)
         /\ \A i \in 1..Len(Outcomes) :
                /\ Has(Outcomes[i], "status")
                /\ Outcomes[i].status \in StatusEnum
    /\ results # Null =>
         \A i \in 1..Len(results.results) :
             /\ Has(results.results[i], "status")
             /\ Rows(results)[i].chip \in StatusEnum

\* access was denied to the lookup of one resource, the lookup of another
\* answered, and the outcomes are shown
C5_Witness ==
    /\ results # Null
    /\ \E i \in 1..Len(lookups) :
          /\ lookups[i] = [ok |-> FALSE, error |-> "AuthorizationFailed: no read access"]
          /\ results.results[i].status = "error"
          /\ Rows(results)[i].chip = "error"
    /\ \E i \in 1..Len(results.results) : Rows(results)[i].chip = "available"

\* ------------------------------------------------------------------------
\* Properties of the UI (Spec)
\* ------------------------------------------------------------------------
\* the step that handles the body of the draft response, and what it handles
DraftHandled(i) ==
    /\ i \in 1..Len(ai)
    /\ ai[i].pc = "json"
    /\ Len(ai') = Len(ai)
    /\ ai'[i].pc # "json"
DraftData(i) == JsonOrEmpty(ai[i].res)

\* C6: a draft call answered with a non-OK status (503 when the hosted model
\* is not configured) sets aiError to the configuration message, and no step
\* of that call changes the plan, its resources or the selected region.
C6_NotConfiguredKeepsPlan ==
    [][ /\ (ai' # ai /\ ~(\E i \in 1..Len(ai) : DraftHandled(i) /\ ai[i].res.ok)) =>
              (plan' = plan /\ region' = region)
        /\ \A i \in 1..Len(ai) : (DraftHandled(i) /\ ~ai[i].res.ok) =>
              /\ aiError' # NullString
              /\ aiError' = "AI analysis failed: "
                              \o (IF ai[i].res.body.json THEN ai[i].res.body.value.detail
                                  ELSE "HTTP " \o ToString(ai[i].res.status))
                              \o ". Configure Azure OpenAI in backend env vars."
      ]_vars

\* a plan with a resource has gone through a draft call answered 503: the
\* error is shown and the resource is still there
C6_Witness ==
    /\ Len(ai) = 1
    /\ ai[1].pc = "timer"
    /\ aiError = "AI analysis failed: Azure OpenAI not configured. Configure Azure OpenAI in backend env vars."
    /\ Len(plan.resources) = 1
    /\ plan.resources[1].quantity = 1

\* the draft response is not valid JSON, or has no resources list
Malformed(res) ==
    \/ ~res.body.json
    \/ res.body.value = Null
    \/ ~Has(res.body.value, "resources")

\* C7: a draft response that is not valid JSON or has no well-formed
\* resources list is surfaced as a failure (aiError set) and leaves the plan
\* unchanged.
C7_MalformedDraftKeepsPlan ==
    [][ \A i \in 1..Len(ai) : (DraftHandled(i) /\ Malformed(ai[i].res)) =>
            (aiError' # NullString /\ plan' = plan) ]_vars

\* C8: results changes only in the step that reads the body of a
\* validate-plan response, and then to that body; draft calls, plan edits and
\* region or subscription changes leave it unchanged.
C8_ResultsOnlyFromValidator ==
    [][ results' # results =>
            /\ Len(val) = 1
            /\ val[1].pc = "json"
            /\ val' = <<>>
            /\ val[1].res.body.json
            /\ results' = val[1].res.body.value
            /\ ai' = ai
            /\ plan' = plan
            /\ region' = region
            /\ subscriptionId' = subscriptionId ]_vars

\* outcomes of a validation are on display and a draft has since replaced
\* the plan
C8_Witness ==
    /\ results # Null
    /\ Has(results, "results")
    /\ Len(results.results) = 2
    /\ aiPhase = "Completed"
    /\ Len(plan.resources) = 1
    /\ plan.resources[1].resource_type = KeyVault

\* C9 as stated: after a successful draft call the plan is the parsed
\* response: its resources are the response's resources in the same order and
\* its region is the region given in the response.
C9_PlanIsResponse ==
    [][ \A i \in 1..Len(ai) :
          (DraftHandled(i) /\ ai[i].res.ok /\ ai[i].res.body.json /\ DraftData(i) # Null
             /\ Has(DraftData(i), "resources") /\ Has(DraftData(i), "region")) =>
              /\ plan'.resources = DraftData(i).resources
              /\ plan'.region = DraftData(i).region ]_vars

\* C9 as amended: after a draft call answered OK with a JSON object, the
\* plan's resources are the response's resources in the same order (none when
\* the response has no resources), and its region is the region that was
\* selected when the call was started, whatever region the response gives.
C9_PlanIsResponseResources ==
    [][ /\ Len(ai') = Len(ai) + 1 => ai'[Len(ai')].region = region
        /\ \A i \in 1..Len(ai) :
              /\ (ai[i].pc = "fetch" /\ Len(ai') = Len(ai) /\ ai'[i].pc = "json") =>
                    ai'[i].region = ai[i].region
              /\ (DraftHandled(i) /\ ai[i].res.ok /\ ai[i].res.body.json
                     /\ DraftData(i) # Null) =>
                    /\ DOMAIN plan' = {"region", "resources"}
                    /\ plan'.resources = IF Has(DraftData(i), "resources")
                                         THEN DraftData(i).resources ELSE <<>>
                    /\ plan'.region = ai[i].region ]_vars

\* a draft giving region westeurope and two resources was stored while
\* swedencentral was selected at the start of the call and westeurope at its end
C9_Witness ==
    /\ aiPhase = "Completed"
    /\ Len(plan.resources) = 2
    /\ plan.resources[1].resource_type = VirtualMachines
    /\ plan.resources[2].resource_type = Disks
    /\ plan.region = "swedencentral"
    /\ region = "westeurope"

\* C10: every resource of the plan that has a quantity has a quantity >= 1.
C10_QuantityAtLeastOne ==
    \A i \in 1..Len(plan.resources) :
        Has(plan.resources[i], "quantity") => plan.resources[i].quantity >= 1

QuotaLines == response.body.value.quota_summary

\* the cores that entry i of the request adds to a quota family
PlannedCores(family) ==
    [i \in 1..Len(request.resources) |->
        LET r == request.resources[i]
            sizes == { size \in VmSizes : /\ r.resource_type = VirtualMachines
                                          /\ Has(r, "sku")
                                          /\ size.name = r.sku
                                          /\ size.family = family }
        IN  IF sizes = {} THEN 0
            ELSE (CHOOSE size \in sizes : TRUE).cores * r.quantity]

RECURSIVE SumTo(_, _)
SumTo(f, n) == IF n = 0 THEN 0 ELSE f[n] + SumTo(f, n - 1)

C13_FlaggedFromFourFifths ==
    (results # Null /\ QuotaTableShown(results)) =>
        \A i \in 1..Len(results.quota_summary) :
            LET postPct == OrNull(results.quota_summary[i], "percent_used_after_request")
            IN  QuotaTable(results)[i].highlighted
                    <=> (postPct # Null /\ RatGeq(postPct, Rat(4, 5)))

\* C13 as amended: a quota row is highlighted if and only if the number it
\* has as percent_used_after_request, or as percent_used when it has no
\* percent_used_after_request, is at least 80.
C13_FlaggedFromEighty ==
    (results # Null /\ QuotaTableShown(results)) =>
        \A i \in 1..Len(results.quota_summary) :
            LET q == results.quota_summary[i]
                projected == IF Has(q, "percent_used_after_request")
                             THEN q.percent_used_after_request
                             ELSE OrNull(q, "percent_used")
            IN  QuotaTable(results)[i].highlighted
                    <=> (projected # Null /\ projected.num >= 80 * projected.den)

\* the table shows a row at 79.9 and a row at 0.9 that are not highlighted, a
\* row at 80 and a row with no projection and 85 in use that are
C13_Witness ==
    /\ results # Null
    /\ QuotaTableShown(results)
    /\ Len(QuotaTable(results)) = 4
    /\ ~QuotaTable(results)[1].highlighted
    /\ QuotaTable(results)[2].highlighted
    /\ results.quota_summary[2].percent_used_after_request = Rat(80, 1)
    /\ QuotaTable(results)[3].highlighted
    /\ ~Has(results.quota_summary[3], "percent_used_after_request")
    /\ ~QuotaTable(results)[4].highlighted
    /\ results.quota_summary[4].percent_used_after_request = Rat(9, 10)

\* C14: a quota line with requested_additional = 0, as every line of a
\* family of which the plan has no VM entry is, has
\* percent_used_after_request = percent_used and remaining_after_request =
\* remaining.
C14_ZeroRequestProjectsNothing ==
    (response # Null /\ quota.ok) =>
        \A i \in 1..Len(QuotaLines) :
            LET q == QuotaLines[i]
            IN  /\ (\A k \in 1..Len(request.resources) : PlannedCores(q.name)[k] = 0)
                      => q.requested_additional = 0
                /\ q.requested_additional = 0 =>
                      /\ RatEq(q.percent_used_after_request, q.percent_used)
                      /\ q.remaining_after_request = q.remaining

\* a plan with one VM entry has been projected on two families: nothing is
\* asked of the second, of which 10 of 20 cores are used
C14_Witness ==
    /\ response # Null
    /\ quota.ok
    /\ Len(QuotaLines) = 2
    /\ QuotaLines[1].requested_additional > 0
    /\ QuotaLines[2].requested_additional = 0
    /\ QuotaLines[2].current = 10
    /\ QuotaLines[2].percent_used_after_request = Rat(10, 20)

\* the response has no quota rows
NoQuotaRows(body) == ~Has(body, "quota_summary") \/ Len(body.quota_summary) = 0

\* C15: when the quota listing fails, the response has the quota status
\* 'unavailable' and no quota rows; the view of such a response shows the
\* unavailable message and no quota table, and the quota table and the quota
\* status message are never shown together.
C15_UnavailableQuota ==
    /\ (response # Null /\ ~quota.ok) =>
          /\ response.body.value.quota_status = "unavailable"
          /\ NoQuotaRows(response.body.value)
    /\ results # Null =>
          /\ ~(QuotaTableShown(results) /\ QuotaStatusShown(results))
          /\ (Has(results, "quota_status") /\ results.quota_status = "unavailable"
                /\ NoQuotaRows(results)) =>
                /\ QuotaStatusShown(results)
                /\ QuotaStatusText(results) =
                       "Quota data unavailable (permission, region, or API error)."
                /\ ~QuotaTableShown(results)
                /\ QuotaTable(results) = <<>>

\* the quota listing failed and the response is on display
C15_Witness ==
    /\ quota # Null
    /\ quota # Pending
    /\ ~quota.ok
    /\ results # Null
    /\ results = response.body.value
    /\ QuotaStatusShown(results)
    /\ ~QuotaTableShown(results)

\* C16: once a draft call has been answered 503 because the hosted model is
\* not configured, the AI Plan Generator offers neither the prompt box nor the
\* button.
C16_NotConfiguredHidesAI ==
    aiError = "AI analysis failed: Azure OpenAI not configured. Configure Azure OpenAI in backend env vars."
        => AIPlanGenerator \cap {"prompt", "button"} = {}

\* ------------------------------------------------------------------------
\* SpecRequests: the UI with its requests recorded
\* ------------------------------------------------------------------------
InitRequests ==
    /\ InitUI
    /\ wire = Recording(MountRequests(subscriptionId, region, newType, plan))
    /\ sel = NotFollowing

SpecRequests == InitRequests /\ [][Next]_vars

SpecSettling ==
    /\ Spec
    /\ WF_vars(ValidateFetchSettled)
    /\ WF_vars(ValidateJsonSettled)

C19_ValidationEnds ==
    validating ~> (~validating /\ validationPhase = "" /\ val = <<>>)

\* two validations have been started and have ended
C19_Witness ==
    /\ gestures = 2
    /\ plan.resources = <<>>
    /\ region = "swedencentral"
    /\ subscriptionId = Undefined
    /\ ai = <<>>
    /\ aiError = NullString
    /\ ~validating
    /\ validationPhase = ""
    /\ val = <<>>

\* call i of runValidation ends in this step on a rejected fetch or on a body
\* that is not JSON
RequestFailed(i) ==
    /\ val' = Without(val, i)
    /\ \/ val[i].pc = "fetch"
       \/ val[i].pc = "json" /\ ~val[i].res.body.json

\* C20: a validation that ends on a rejected fetch or on a body that is not
\* JSON leaves results as it was.
C20_FailedValidationKeepsResults ==
    [][ (\E i \in 1..Len(val) : RequestFailed(i)) => results' = results ]_vars

\* outcomes are on display after a second validation has ended
C20_Witness ==
    /\ results # Null
    /\ Has(results, "results")
    /\ Len(results.results) = 2
    /\ gestures = 2
    /\ plan.resources = <<>>
    /\ region = "swedencentral"
    /\ subscriptionId = Undefined
    /\ ai = <<>>
    /\ aiError = NullString
    /\ val = <<>>

\* C21: whenever results is not null it has a results list of outcomes, so
\* that the results view can render it; a non-OK answer of validate-plan is
\* never stored as results.
C21_ResultsRenderable ==
    Has(results, "null") \/ Has(results, "results")

\* C22: the payload of validate-plan carries the region and the subscription
\* selected when Validate is clicked, whatever region the plan stores; with
\* the subscription selection "Default" it has no subscription_id; its
\* resources are the plan's resources, unchanged and in order.
C22_PayloadFromSelection ==
    [][ Len(val') = Len(val) + 1 =>
          LET payload == val'[Len(val')].payload
          IN  /\ payload.region = region
              /\ IF subscriptionId = Undefined
                 THEN ~Has(payload, "subscription_id")
                 ELSE payload.subscription_id = subscriptionId
              /\ payload.resources = plan.resources
              /\ DOMAIN payload \subseteq {"region", "subscription_id", "resources"} ]_vars

\* Validate was clicked with two resources in a plan that stores another
\* region than the selected one, and with the Default subscription
C22_Witness ==
    /\ Len(val) = 1
    /\ val[1].pc = "fetch"
    /\ val[1].payload.region = region
    /\ plan.region # region
    /\ ~Has(val[1].payload, "subscription_id")
    /\ Len(val[1].payload.resources) = 2
    /\ val[1].payload.resources = plan.resources

\* C23: a draft call that completes successfully (an OK answer whose body is
\* not null) replaces the plan: its resources are exactly the response's
\* resources, none when the response has none, whatever resources the plan
\* had when the call was started or got during the call, and its region is
\* the region that was selected when the call was started, whatever region is
\* selected when the call completes.
C23_DraftReplacesPlan ==
    [][ /\ Len(ai') = Len(ai) + 1 =>
              ai'[Len(ai')] = [pc |-> "fetch", region |-> region]
        /\ \A i \in 1..Len(ai) :
              /\ (ai[i].pc = "fetch" /\ Len(ai') = Len(ai) /\ ai'[i].pc = "json") =>
                    ai'[i].region = ai[i].region
              /\ (DraftHandled(i) /\ ai[i].res.ok /\ DraftData(i) # Null) =>
                    plan' = [region |-> ai[i].region,
                             resources |-> IF Has(DraftData(i), "resources")
                                           THEN DraftData(i).resources
                                           ELSE <<>>] ]_vars

\* a draft with the one Key Vault resource has replaced the plan after three
\* gestures, and the plan stores another region than the one now selected
C23_Witness ==
    /\ Len(ai) = 1
    /\ ai[1].pc = "timer"
    /\ aiPhase = "Completed"
    /\ gestures = 3
    /\ plan.resources = << [resource_type |-> KeyVault, sku |-> "standard"] >>
    /\ plan.region = "swedencentral"
    /\ region # "swedencentral"
    /\ newSku = ""

\* ------------------------------------------------------------------------
\* SpecDraftSettling: Spec, where the fetch of a draft call settles, its body
\* gets read and its delayed reset fires
\* ------------------------------------------------------------------------
SpecDraftSettling ==
    /\ Spec
    /\ WF_vars(runAIFetchSettled)
    /\ WF_vars(runAIJsonSettled)
    /\ WF_vars(runAITimer)

\* C24: aiLoading is true from the start of a draft call until its delayed
\* reset has fired, and the Analyze button is disabled all that time; at most
\* one draft call has not ended, so that a call starts only when the delayed
\* reset of the call before it has fired; every start of a call clears
\* aiError; and after every call, successful or failed, aiLoading becomes
\* false again.
C24_OneDraftOutstanding ==
    /\ [](aiLoading <=> ai # <<>>)
    /\ [](ai # <<>> => analyzeDisabled)
    /\ [](Len(ai) <= 1)
    /\ [][ Len(ai') = Len(ai) + 1 =>
             /\ ai = <<>>
             /\ aiError' = NullString
             /\ aiLoading' ]_vars
    /\ [][ (aiLoading /\ ~aiLoading') =>
             (Len(ai) = 1 /\ ai[1].pc = "timer" /\ ai' = <<>>) ]_vars
    /\ (aiLoading ~> ~aiLoading)

\* a draft call has ended, its delayed reset has fired, and the next call has
\* been started
C24_Witness ==
    /\ gestures = 2
    /\ Len(ai) = 1
    /\ ai[1].pc = "fetch"
    /\ aiLoading
    /\ aiError = NullString
    /\ aiPhase = "Analyzing architecture prompt"
    /\ plan.resources = <<>>
    /\ aiPrompt = ""
    /\ region = "swedencentral"
    /\ subscriptionId = Undefined
    /\ newType = VirtualMachines
    /\ newSku = ""
    /\ val = <<>>

\* ------------------------------------------------------------------------
\* Properties of PlanEditor (Spec)
\* ------------------------------------------------------------------------
\* the patches the rows of the plan give to updateResource
Patches ==
    { [quantity |-> Number(text)] : text \in QuantityTexts }
      \cup { [sku |-> v] : v \in UNION { SkuTexts(type) : type \in TypeOptions } }

Param(req, name) ==
    IF name \in DOMAIN req.url.searchParams THEN req.url.searchParams[name]
    ELSE Undefined

\* the bodies the list endpoints answer with, by request
Listing(req) ==
    LET location == Param(req, "location")
        sub == Param(req, "subscription_id")
        type == Param(req, "resource_type")
    IN  CASE req.url.path = "/api/locations" ->
               IF sub = Undefined
               THEN << [name |-> "swedencentral"], [name |-> "westeurope"] >>
               ELSE << [name |-> "westeurope"], [name |-> "swedencentral"] >>
          [] req.url.path = "/api/compute/vm-sizes" ->
               IF location = "swedencentral"
               THEN IF sub = Undefined
                    THEN << [name |-> "Standard_D2s_v5"], [name |-> "Standard_D4s_v5"] >>
                    ELSE << [name |-> "Standard_D4s_v5"] >>
               ELSE IF sub = Undefined
                    THEN << [name |-> "Standard_B2s"], [name |-> "Standard_D4s_v5"] >>
                    ELSE <<>>
          [] req.url.path = "/api/resource-skus" ->
               IF type = Disks
               THEN IF location = "swedencentral"
                    THEN [items |-> << [name |-> "Premium_LRS"], [name |-> "Standard_LRS"] >>]
                    ELSE [items |-> << [name |-> "Standard_LRS"] >>]
               ELSE IF location = "swedencentral"
                    THEN [items |-> << [name |-> "standard"], [name |-> "premium"] >>]
                    ELSE EmptyObject

\* the list a selector takes from a body: the body, or data.items || []
ListOf(component, body) ==
    IF component = "GenericSkuSelector"
    THEN IF Has(body, "items") THEN body.items ELSE <<>>
    ELSE body

\* the list fetch f resolves: setRegions(list), or setSizes(list) / setItems(list)
\* followed by the selection of the first entry when the callback's value is empty
ListFetchResolved(f) ==
    LET list == ListOf(f.component, Listing(f.request))
        selects == /\ f.component # "RegionSelector"
                   /\ StrOr(f.value, Undefined) = Undefined
                   /\ Len(list) > 0
        base == [sel EXCEPT
                   !.fetches = @ \ {f},
                   !.regions = IF f.component = "RegionSelector" THEN list ELSE @,
                   !.lists = IF f.component # "RegionSelector" /\ f.live
                             THEN [@ EXCEPT ![f.slot] = list] ELSE @]
    IN  /\ IF selects /\ f.slot = 0
           THEN \* onChange is setNewSku
                /\ newSku' = list[1].name
                /\ UNCHANGED plan
           ELSE IF selects
           THEN \* onChange is (v) => updateResource(idx, { sku: v })
                /\ plan' = updateResourceOf(f.plan, f.slot, [sku |-> list[1].name])
                /\ UNCHANGED newSku
           ELSE UNCHANGED <<plan, newSku>>
        /\ UNCHANGED <<aiPrompt, subscriptionId, region, results, aiLoading, aiPhase,
                       validating, validationPhase, aiError, newType, customType>>
        /\ sel' = RunEffects(base)

\* the list fetch f is rejected: .catch(console.error), or .catch(() => setItems([]))
ListFetchRejected(f) ==
    LET base == [sel EXCEPT
                   !.fetches = @ \ {f},
                   !.failed = TRUE,
                   !.lists = IF f.component = "GenericSkuSelector" /\ f.live
                             THEN [@ EXCEPT ![f.slot] = <<>>] ELSE @]
    IN  /\ UNCHANGED <<appVars, editorVars>>
        /\ sel' = RunEffects(base)

\* a list fetch settles
ListFetchSettled ==
    /\ \E f \in sel.fetches : ListFetchResolved(f) \/ ListFetchRejected(f)
    /\ UNCHANGED <<ai, val, validatorVars, wire, gestures>>

\* the selectors when the UI is first rendered: RegionSelector and the
\* VMSizeSelector of the new-resource form are mounted with empty lists and
\* their effects have started their fetches
InitSelectors ==
    /\ InitUI
    /\ wire = NotRecording
    /\ sel = [following |-> TRUE,
              failed |-> FALSE,
              regions |-> <<>>,
              lists |-> (0 :> <<>>),
              fetches |-> { [component |-> "VMSizeSelector", slot |-> 0,
                             live |-> TRUE,
                             request |-> VmSizesRequest(region, subscriptionId),
                             value |-> newSku],
                            [component |-> "RegionSelector",
                             request |-> LocationsRequest(subscriptionId)] }]

NextSelectors ==
    \/ addResource
    \/ SkuChange
    \/ RemoveClick
    \/ setNewType
    \/ setNewSku
    \/ setRegion
    \/ setSubscriptionId
    \/ ListFetchSettled

SpecSelectors == InitSelectors /\ [][NextSelectors]_vars

\* ------------------------------------------------------------------------
\* Properties of the selectors (SpecSelectors)
\* ------------------------------------------------------------------------
\* C26: the first entry of an arriving list is selected only when no SKU is
\* chosen at the moment the list arrives: a list that arrives leaves a chosen
\* SKU of the new-resource form and the chosen SKU of every row as they are.
C26_AutoSelectKeepsChoice ==
    [][ (\E f \in sel.fetches : ListFetchResolved(f)) =>
          /\ newSku # "" => newSku' = newSku
          /\ \A k \in 1..Len(plan.resources) :
                StrOr(SlotValue(newSku, plan, k), Undefined) # Undefined =>
                    /\ k <= Len(plan'.resources)
                    /\ SlotValue(newSku', plan', k) = SlotValue(newSku, plan, k) ]_vars

\* the list the selector in slot k is to display for the current selections
Current(k) ==
    ListOf(SelectorOf(Slots(newType, plan)[k]),
           Listing(SelectorRequest(Slots(newType, plan)[k], region, subscriptionId)))

\* C27: once all list fetches have settled, none of them rejected, the
\* region list is the response for the selected subscription and the list of
\* every mounted selector is the response for the selected region,
\* subscription and resource type.
C27_ListsOfCurrentSelection ==
    (sel.fetches = {} /\ ~sel.failed) =>
        /\ sel.regions = Listing(LocationsRequest(subscriptionId))
        /\ \A k \in DOMAIN sel.lists : sel.lists[k] = Current(k)

====
